---- MODULE Spec2Model ----
(***************************************************************************)
(* EditableRect (src/tools/rectangle/EditableRect.js): an editable         *)
(* rectangle with four corner handles and four edge strips, driven by      *)
(* mousedown / mousemove / mouseup events.                                  *)
(*                                                                         *)
(* Coordinates are integers.  The DOM attributes written by setRectSize,   *)
(* setHandleXY and setAttribute and read back by getRectSize and           *)
(* getHandleXY are kept as the numbers written (a number survives the      *)
(* attribute string and parseFloat unchanged).                             *)
(***************************************************************************)
EXTENDS Integers, Sequences, FiniteSets, TLC

\* ------------------------------------------------------------------ bounds

\* env.image.naturalWidth / naturalHeight of the image under the rectangle.
NaturalWidth == 2
NaturalHeight == 1
\* How far beyond the image's right and bottom sides a pointer position may lie.
PtrMargin == 1

\* ------------------------------------------------------- program constants

CORNER == "corner"
EDGE == "edge"
\* The type argument of the body's listener: onGrab(this.rectangle).
Undefined == "undefined"
\* null as a grabbedType, and null where a point is held otherwise.
NullType == "null"
Null == [null |-> TRUE]
\* evt.button of the left button.
LeftButton == 0
\* Math.max(1, ...) and the "< 1" clamps.
MinSize == 1
BasePadding == 5

\* ---------------------------------------------------------------- inputs

XCoords == 0..(NaturalWidth + PtrMargin)
YCoords == 0..(NaturalHeight + PtrMargin)
Points == [x : XCoords, y : YCoords]
Pt(px, py) == [x |-> px, y |-> py]
Origin == Pt(0, 0)

\* evt.button of an event of another button.
RightButton == 2

\* Scale factors of the surface's screen transform (divisors of BasePadding,
\* so that BasePadding / zoomFactor is exact in integers).
Zooms == {5}
NoCTM == [null |-> TRUE, a |-> 0]
CTMs == {NoCTM} \cup {[null |-> FALSE, a |-> z] : z \in Zooms}

Rect(rx, ry, rw, rh) == [x |-> rx, y |-> ry, w |-> rw, h |-> rh]

\* this.env.image
Image == [naturalWidth |-> NaturalWidth, naturalHeight |-> NaturalHeight]

\* Rectangles an annotation encodes: inside the image, at least 1 x 1.
AnnotationRects ==
    {Rect(rx, ry, rw, rh) : rx \in 0..NaturalWidth, ry \in 0..NaturalHeight,
                            rw \in 1..NaturalWidth, rh \in 1..NaturalHeight}
    \cap {r \in [x : 0..NaturalWidth, y : 0..NaturalHeight,
                 w : 1..NaturalWidth, h : 1..NaturalHeight] :
            r.x + r.w <= NaturalWidth /\ r.y + r.h <= NaturalHeight}

\* An annotation: its target selector as a pixel fragment.
Annotation(r) == [unit |-> "pixel", x |-> r.x, y |-> r.y, w |-> r.w, h |-> r.h]
Annotations == {Annotation(r) : r \in AnnotationRects}

\* --------------------------------------------------------------- elements

\* DOM elements the widget owns, by identity.
NullElem == [tag |-> "null", n |-> 0]
RectangleElem == [tag |-> "rectangle", n |-> 0]
HandleElem(i) == [tag |-> "handle", n |-> i]
EdgeElem(i) == [tag |-> "edge", n |-> i]

\* this.handles: the four handle elements, index 0..3, clockwise from top-left.
HandleIdxs == 0..3
Handles == [i \in HandleIdxs |-> HandleElem(i)]

\* this.edges: [top, right, bottom, left].
EdgeIdxs == 0..3
EdgePositions == [i \in EdgeIdxs |->
    CASE i = 0 -> "top" [] i = 1 -> "right" [] i = 2 -> "bottom" [] OTHER -> "left"]
Edges == [i \in EdgeIdxs |-> EdgeElem(i)]

\* handles.indexOf(elem): -1 when elem is no handle.
IndexOfHandle(elem) ==
    IF \E i \in HandleIdxs : Handles[i] = elem
    THEN CHOOSE i \in HandleIdxs : Handles[i] = elem
    ELSE -1

\* a ^ b on non-negative integers.
RECURSIVE BitXor(_, _)
BitXor(a, b) ==
    IF a = 0 /\ b = 0 THEN 0
    ELSE (((a % 2) + (b % 2)) % 2) + 2 * BitXor(a \div 2, b \div 2)

\* Listeners with the handles registered as edges.
ListenersHandlesAsEdges ==
    {[elem |-> RectangleElem, type |-> Undefined]}
    \cup {[elem |-> Edges[i], type |-> EDGE] : i \in EdgeIdxs}
    \cup {[elem |-> Handles[i], type |-> EDGE] : i \in HandleIdxs}

\* The mousedown listeners the constructor registers: (element, type).
Listeners ==
    {[elem |-> RectangleElem, type |-> Undefined]}
    \cup {[elem |-> Edges[i], type |-> EDGE] : i \in EdgeIdxs}
    \cup {[elem |-> Handles[i], type |-> CORNER] : i \in HandleIdxs}

\* ------------------------------------------------------------------ state

VARIABLES
    rect,         \* x, y, width, height attributes of this.rectangle
    handleXY,     \* position of each handle, by index
    edgeAttrs,    \* x, y, width, height and class of each edge strip
    grabbedElem,  \* this.grabbedElem
    grabbedType,  \* this.grabbedType
    mouseOffset,  \* this.mouseOffset
    ctm,          \* this.svgRoot.getScreenCTM(), owned by the host
    emitted,      \* the 'update' payloads emitted by the last handler
    movedTo,      \* the pointer position of the mousemove that handler
                  \* processed with an element grabbed; Null otherwise
    lastCall,     \* the last method or listener of the widget that ran
    life          \* "live"; after destroy() "detached" while the svg still
                  \* holds the two listeners, "released" once it does not

vars == <<rect, handleXY, edgeAttrs, grabbedElem, grabbedType, mouseOffset,
          ctm, emitted, movedTo, lastCall, life>>

\* A call: the method's name and, for updateState, its annotation.
Call(op, arg) == [op |-> op, arg |-> arg]
NoArg == [unit |-> "none", x |-> 0, y |-> 0, w |-> 0, h |-> 0]
\* What a mousedown listener was called with: its element and type and the
\* event, kept for an event of the left button.
GrabArg(elem, type, evt) ==
    IF evt.button = LeftButton
    THEN [elem |-> elem, type |-> type, evt |-> evt]
    ELSE NoArg

\* ----------------------------------------------------------- collaborators

\* parseRectFragment(annotation, image): the rectangle the fragment encodes.
ParseRectFragment(annotation) ==
    Rect(annotation.x, annotation.y, annotation.w, annotation.h)

\* toRectFragment(x, y, w, h, image, unit): the rectangle as a fragment.
ToRectFragment(rx, ry, rw, rh) ==
    [unit |-> "pixel", x |-> rx, y |-> ry, w |-> rw, h |-> rh]

\* getRectSize(this.rectangle)
GetRectSize(r) == Rect(r.x, r.y, r.w, r.h)

\* getHandleXY(handle)
GetHandleXY(hxy, elem) == hxy[IndexOfHandle(elem)]

\* getSVGPoint(evt): the event's position in the rectangle's coordinates.
GetSVGPoint(evt) == Pt(evt.pos.x, evt.pos.y)

\* An event: its button and position.  A handler that returns before it reads
\* the position (another button; mouseup) gets the events of one position.
Evt(pos, button) == [pos |-> pos, button |-> button]
LeftEvents == {Evt(pos, LeftButton) : pos \in Points}
OtherEvents == {Evt(Origin, RightButton)}
PointerEvents == LeftEvents \cup OtherEvents
MouseUpEvents == {Evt(Origin, LeftButton)} \cup OtherEvents

\* ------------------------------------------------------------ edge padding

GetZoomFactor(transform) == IF ~transform.null THEN transform.a ELSE 1

\* calculateEdgePadding that ignores the zoom factor.
CalculateEdgePaddingUnscaled(transform) == BasePadding

\* calculateEdgePadding(): basePadding / zoomFactor.
CalculateEdgePadding(transform) == BasePadding \div GetZoomFactor(transform)

EdgeAttr(ex, ey, ewidth, eheight, position) ==
    [x |-> ex, y |-> ey, width |-> ewidth, height |-> eheight,
     class |-> <<"a9s-edge", position>>]

CreateEdges(rx, ry, rw, rh, transform) ==
    LET p == CalculateEdgePadding(transform) IN
    [i \in EdgeIdxs |->
        CASE i = 0 -> EdgeAttr(rx, ry - p, rw, 2 * p, "top")
          [] i = 1 -> EdgeAttr(rx + rw - p, ry, 2 * p, rh, "right")
          [] i = 2 -> EdgeAttr(rx, ry + rh - p, rw, 2 * p, "bottom")
          [] OTHER -> EdgeAttr(rx - p, ry, 2 * p, rh, "left")]

\* updateEdgePositions that puts the bottom strip where the top strip is.
UpdateEdgePositionsBottomAtTop(edges, r, transform) ==
    LET p == CalculateEdgePadding(transform)
        g == GetRectSize(r)
    IN [i \in EdgeIdxs |->
        CASE i = 0 -> [edges[i] EXCEPT !.x = g.x, !.y = g.y - p,
                                       !.width = g.w, !.height = 2 * p]
          [] i = 1 -> [edges[i] EXCEPT !.x = g.x + g.w - p, !.y = g.y,
                                       !.width = 2 * p, !.height = g.h]
          [] i = 2 -> [edges[i] EXCEPT !.x = g.x, !.y = g.y - p,
                                       !.width = g.w, !.height = 2 * p]
          [] OTHER -> [edges[i] EXCEPT !.x = g.x - p, !.y = g.y,
                                       !.width = 2 * p, !.height = g.h]]

\* updateEdgePositions(): rewrites x, y, width, height; the class stays.
UpdateEdgePositions(edges, r, transform) ==
    LET p == CalculateEdgePadding(transform)
        g == GetRectSize(r)
    IN [i \in EdgeIdxs |->
        CASE i = 0 -> [edges[i] EXCEPT !.x = g.x, !.y = g.y - p,
                                       !.width = g.w, !.height = 2 * p]
          [] i = 1 -> [edges[i] EXCEPT !.x = g.x + g.w - p, !.y = g.y,
                                       !.width = 2 * p, !.height = g.h]
          [] i = 2 -> [edges[i] EXCEPT !.x = g.x, !.y = g.y + g.h - p,
                                       !.width = g.w, !.height = 2 * p]
          [] OTHER -> [edges[i] EXCEPT !.x = g.x - p, !.y = g.y,
                                       !.width = 2 * p, !.height = g.h]]

\* --------------------------------------------------------------- geometry

\* The four setHandleXY calls of setSize.
SetSizeHandles(rx, ry, rw, rh) ==
    [i \in HandleIdxs |->
        CASE i = 0 -> Pt(rx, ry)
          [] i = 1 -> Pt(rx + rw, ry)
          [] i = 2 -> Pt(rx + rw, ry + rh)
          [] OTHER -> Pt(rx, ry + rh)]

\* setSize that stores width and height in each other's place.
SetSizeSwapped(rx, ry, rw, rh) ==
    /\ rect' = Rect(rx, ry, rh, rw)
    /\ handleXY' = SetSizeHandles(rx, ry, rw, rh)
    /\ edgeAttrs' = UpdateEdgePositions(edgeAttrs, Rect(rx, ry, rw, rh), ctm)

\* setSize(x, y, w, h)
SetSize(rx, ry, rw, rh) ==
    /\ rect' = Rect(rx, ry, rw, rh)
    /\ handleXY' = SetSizeHandles(rx, ry, rw, rh)
    /\ edgeAttrs' = UpdateEdgePositions(edgeAttrs, Rect(rx, ry, rw, rh), ctm)

Abs(n) == IF n < 0 THEN 0 - n ELSE n
Max(a, b) == IF a >= b THEN a ELSE b

\* stretchCorners without Math.max(1, ...): a zero width or height gets through.
StretchCornersNoMin(draggedHandleIdx, anchor, mousePos) ==
    LET width == mousePos.x - anchor.x
        height == mousePos.y - anchor.y
    IN Rect(IF width > 0 THEN anchor.x ELSE mousePos.x,
            IF height > 0 THEN anchor.y ELSE mousePos.y,
            Abs(width), Abs(height))

\* stretchCorners that always starts the rectangle at the anchor.
StretchCornersNoFlip(draggedHandleIdx, anchor, mousePos) ==
    LET width == mousePos.x - anchor.x
        height == mousePos.y - anchor.y
    IN Rect(anchor.x, anchor.y,
            Max(MinSize, Abs(width)), Max(MinSize, Abs(height)))

\* stretchCorners: the rectangle it computes, passes to setSize and returns.
StretchCorners(draggedHandleIdx, anchor, mousePos) ==
    LET width == mousePos.x - anchor.x
        height == mousePos.y - anchor.y
    IN Rect(IF width > 0 THEN anchor.x ELSE mousePos.x,
            IF height > 0 THEN anchor.y ELSE mousePos.y,
            Max(MinSize, Abs(width)),
            Max(MinSize, Abs(height)))

\* edge.getAttribute("class").split(" ")[1]
EdgePosition(edge) == edge.class[2]

\* stretchEdge whose "top" case also takes x from the pointer.
StretchEdgeTopMovesX(cur, edge, mousePos) ==
    LET edgePosition == EdgePosition(edge)
        clamp(n) == IF n < MinSize THEN MinSize ELSE n
    IN CASE edgePosition = "top" ->
              Rect(mousePos.x, mousePos.y, cur.w,
                   clamp(cur.y + cur.h - mousePos.y))
         [] edgePosition = "right" ->
              Rect(cur.x, cur.y, clamp(mousePos.x - cur.x), cur.h)
         [] edgePosition = "bottom" ->
              Rect(cur.x, cur.y, cur.w, clamp(mousePos.y - cur.y))
         [] edgePosition = "left" ->
              Rect(mousePos.x, cur.y, clamp(cur.x + cur.w - mousePos.x), cur.h)
         [] OTHER -> cur

\* stretchEdge: the rectangle it computes, passes to setSize and returns.
StretchEdge(cur, edge, mousePos) ==
    LET edgePosition == EdgePosition(edge)
        clamp(n) == IF n < MinSize THEN MinSize ELSE n
    IN CASE edgePosition = "top" ->
              Rect(cur.x, mousePos.y, cur.w, clamp(cur.y + cur.h - mousePos.y))
         [] edgePosition = "right" ->
              Rect(cur.x, cur.y, clamp(mousePos.x - cur.x), cur.h)
         [] edgePosition = "bottom" ->
              Rect(cur.x, cur.y, cur.w, clamp(mousePos.y - cur.y))
         [] edgePosition = "left" ->
              Rect(mousePos.x, cur.y, clamp(cur.x + cur.w - mousePos.x), cur.h)
         [] OTHER -> cur

\* constrain without its lower clamp.
ConstrainUpperOnly(coord, max) == IF coord > max THEN max ELSE coord

\* constrain(coord, max) of onMouseMove
Constrain(coord, max) ==
    IF coord < 0 THEN 0 ELSE IF coord > max THEN max ELSE coord

\* The body branch constraining the origin to the image, not to image - size.
MoveBodyNoSize(cur, offset, pos, image) ==
    Rect(Constrain(pos.x - offset.x, image.naturalWidth),
         Constrain(pos.y - offset.y, image.naturalHeight),
         cur.w, cur.h)

\* The body branch adding the pointer's offset to the current origin.
MoveBodyRelative(cur, offset, pos, image) ==
    Rect(Constrain(cur.x + pos.x - offset.x, image.naturalWidth - cur.w),
         Constrain(cur.y + pos.y - offset.y, image.naturalHeight - cur.h),
         cur.w, cur.h)

\* The body branch of onMouseMove: the rectangle passed to setSize.
MoveBody(cur, offset, pos, image) ==
    Rect(Constrain(pos.x - offset.x, image.naturalWidth - cur.w),
         Constrain(pos.y - offset.y, image.naturalHeight - cur.h),
         cur.w, cur.h)

\* An emit with width and height swapped.
EmitSwapped(r) == <<ToRectFragment(r.x, r.y, r.h, r.w)>>

\* this.emit("update", toRectFragment(x, y, w, h, ...)): the payloads emitted.
Emit(r) == <<ToRectFragment(r.x, r.y, r.w, r.h)>>

\* ------------------------------------------------------------------- Init

\* The state the constructor leaves, for the annotation it was given.
Init ==
    \E a \in Annotations, t \in CTMs :
        LET r == ParseRectFragment(a) IN
        /\ rect = Rect(r.x, r.y, r.w, r.h)
        /\ handleXY = SetSizeHandles(r.x, r.y, r.w, r.h)
        /\ edgeAttrs = CreateEdges(r.x, r.y, r.w, r.h, t)
        /\ ctm = t
        /\ grabbedElem = NullElem
        /\ grabbedType = NullType
        /\ mouseOffset = Null
        /\ emitted = <<>>
        /\ movedTo = Null
        /\ lastCall = Call("constructor", a)
        /\ life = "live"

\* ---------------------------------------------------------------- actions

\* The pointer is over the element: inside the rectangle, on a handle (its
\* circle is narrower than one unit), inside an edge strip.
Over(elem, pos) ==
    CASE elem.tag = "rectangle" ->
            /\ rect.x <= pos.x /\ pos.x <= rect.x + rect.w
            /\ rect.y <= pos.y /\ pos.y <= rect.y + rect.h
      [] elem.tag = "handle" -> pos = handleXY[elem.n]
      [] elem.tag = "edge" ->
            LET e == edgeAttrs[elem.n] IN
            /\ e.x <= pos.x /\ pos.x <= e.x + e.width
            /\ e.y <= pos.y /\ pos.y <= e.y + e.height
      [] OTHER -> FALSE

\* onGrab that records the pointer position as the offset.
OnGrabAbsolute(elem, type, evt) ==
    /\ emitted' = <<>>
    /\ movedTo' = Null
    /\ lastCall' = Call("onGrab", GrabArg(elem, type, evt))
    /\ UNCHANGED life
    /\ IF evt.button # LeftButton
       THEN UNCHANGED <<rect, handleXY, edgeAttrs, grabbedElem, grabbedType,
                        mouseOffset, ctm>>
       ELSE LET pos == GetSVGPoint(evt)
            IN /\ grabbedElem' = elem
               /\ grabbedType' = type
               /\ mouseOffset' = Pt(pos.x, pos.y)
               /\ UNCHANGED <<rect, handleXY, edgeAttrs, ctm>>

\* onGrab(grabbedElem, type)(evt)
OnGrab(elem, type, evt) ==
    /\ emitted' = <<>>
    /\ movedTo' = Null
    /\ lastCall' = Call("onGrab", GrabArg(elem, type, evt))
    /\ UNCHANGED life
    /\ IF evt.button # LeftButton
       THEN UNCHANGED <<rect, handleXY, edgeAttrs, grabbedElem, grabbedType,
                        mouseOffset, ctm>>
       ELSE LET pos == GetSVGPoint(evt)
                cur == GetRectSize(rect)
            IN /\ grabbedElem' = elem
               /\ grabbedType' = type
               /\ mouseOffset' = Pt(pos.x - cur.x, pos.y - cur.y)
               /\ UNCHANGED <<rect, handleXY, edgeAttrs, ctm>>

\* A mousedown reaches an element only while the element is in the document.
MouseDown ==
    \E l \in Listeners, evt \in PointerEvents :
        /\ life = "live"
        /\ evt.button = LeftButton => Over(l.elem, evt.pos)
        /\ OnGrab(l.elem, l.type, evt)

\* The rectangle a mousemove passes to setSize and emits; rect itself when
\* the grabbed element matches no branch.
MoveResult(pos) ==
    IF grabbedElem = RectangleElem
    THEN MoveBody(GetRectSize(rect), mouseOffset, pos, Image)
    ELSE IF grabbedType = CORNER
    THEN LET handleIdx == IndexOfHandle(grabbedElem)
             oppositeHandle == Handles[BitXor(handleIdx, 2)]
         IN StretchCorners(handleIdx, GetHandleXY(handleXY, oppositeHandle), pos)
    ELSE IF grabbedType = EDGE
    THEN StretchEdge(GetRectSize(rect), edgeAttrs[grabbedElem.n], pos)
    ELSE rect

\* onMouseMove that emits the current rectangle when nothing is grabbed.
OnMouseMoveEmitsIdle(evt) ==
    /\ UNCHANGED <<grabbedElem, grabbedType, mouseOffset, ctm, life>>
    /\ lastCall' = Call("onMouseMove", NoArg)
    /\ IF evt.button # LeftButton \/ grabbedElem = NullElem
       THEN /\ emitted' = Emit(rect)
            /\ movedTo' = Null
            /\ UNCHANGED <<rect, handleXY, edgeAttrs>>
       ELSE LET pos == GetSVGPoint(evt)
                r == MoveResult(pos)
            IN /\ movedTo' = pos
               /\ SetSize(r.x, r.y, r.w, r.h)
               /\ emitted' = Emit(r)

\* onMouseMove(evt)
OnMouseMove(evt) ==
    /\ UNCHANGED <<grabbedElem, grabbedType, mouseOffset, ctm, life>>
    /\ lastCall' = Call("onMouseMove", NoArg)
    /\ IF evt.button # LeftButton \/ grabbedElem = NullElem
       THEN /\ emitted' = <<>>
            /\ movedTo' = Null
            /\ UNCHANGED <<rect, handleXY, edgeAttrs>>
       ELSE LET pos == GetSVGPoint(evt)
                r == MoveResult(pos)
            IN /\ movedTo' = pos
               /\ IF \/ grabbedElem = RectangleElem
                     \/ grabbedType = CORNER
                     \/ grabbedType = EDGE
                  THEN /\ SetSize(r.x, r.y, r.w, r.h)
                       /\ emitted' = Emit(r)
                  ELSE /\ emitted' = <<>>
                       /\ UNCHANGED <<rect, handleXY, edgeAttrs>>

\* The rectangles the model follows: body drags of a rectangle wider than the
\* image alternating with edge drags widen it without end, so a move that takes
\* the rectangle out of this window around the image is left out.
InWindow(r) ==
    /\ 0 - PtrMargin <= r.x /\ r.x + r.w <= NaturalWidth + PtrMargin
    /\ 0 - PtrMargin <= r.y /\ r.y + r.h <= NaturalHeight + PtrMargin

\* The svg delivers a mousemove while it holds the listener.
MouseMove ==
    \E evt \in PointerEvents :
        /\ life # "released"
        /\ OnMouseMove(evt)
        /\ InWindow(rect')

\* onMouseUp that leaves the pointer offset in place.
OnMouseUpKeepsOffset(evt) ==
    /\ emitted' = <<>>
    /\ movedTo' = Null
    /\ grabbedElem' = NullElem
    /\ grabbedType' = NullType
    /\ lastCall' = Call("onMouseUp", NoArg)
    /\ UNCHANGED <<rect, handleXY, edgeAttrs, mouseOffset, ctm, life>>

\* onMouseUp(evt)
OnMouseUp(evt) ==
    /\ emitted' = <<>>
    /\ movedTo' = Null
    /\ grabbedElem' = NullElem
    /\ grabbedType' = NullType
    /\ mouseOffset' = Null
    /\ lastCall' = Call("onMouseUp", NoArg)
    /\ UNCHANGED <<rect, handleXY, edgeAttrs, ctm, life>>

\* The svg delivers a mouseup while it holds the listener.
MouseUp == \E evt \in MouseUpEvents : life # "released" /\ OnMouseUp(evt)

\* updateState that emits the rectangle it set.
UpdateStateEmits ==
    \E a \in Annotations :
        LET r == ParseRectFragment(a) IN
        /\ life = "live"
        /\ SetSize(r.x, r.y, r.w, r.h)
        /\ emitted' = Emit(r)
        /\ movedTo' = Null
        /\ lastCall' = Call("updateState", a)
        /\ UNCHANGED <<grabbedElem, grabbedType, mouseOffset, ctm, life>>

\* updateState(annotation); the host calls it on an editor it has not destroyed.
UpdateState ==
    \E a \in Annotations :
        LET r == ParseRectFragment(a) IN
        /\ life = "live"
        /\ SetSize(r.x, r.y, r.w, r.h)
        /\ emitted' = <<>>
        /\ movedTo' = Null
        /\ lastCall' = Call("updateState", a)
        /\ UNCHANGED <<grabbedElem, grabbedType, mouseOffset, ctm, life>>

\* onScaleChanged that also drops the pointer offset.
OnScaleChangedDropsOffset ==
    /\ life = "live"
    /\ edgeAttrs' = UpdateEdgePositions(edgeAttrs, rect, ctm)
    /\ emitted' = <<>>
    /\ movedTo' = Null
    /\ mouseOffset' = Null
    /\ lastCall' = Call("onScaleChanged", NoArg)
    /\ UNCHANGED <<rect, handleXY, grabbedElem, grabbedType, ctm, life>>

\* onScaleChanged(): rescales the handles in place and repositions the edges.
OnScaleChanged ==
    /\ life = "live"
    /\ edgeAttrs' = UpdateEdgePositions(edgeAttrs, rect, ctm)
    /\ emitted' = <<>>
    /\ movedTo' = Null
    /\ lastCall' = Call("onScaleChanged", NoArg)
    /\ UNCHANGED <<rect, handleXY, grabbedElem, grabbedType, mouseOffset, ctm,
                   life>>

\* The host zooms the surface: getScreenCTM() answers differently from now on.
HostZoom ==
    \E t \in CTMs :
        /\ t # ctm
        /\ ctm' = t
        /\ emitted' = <<>>
        /\ movedTo' = Null
        /\ UNCHANGED <<rect, handleXY, edgeAttrs, grabbedElem, grabbedType,
                       mouseOffset, lastCall, life>>

\* super.destroy(): whether EditableShape takes the mousemove and mouseup
\* listeners off the svg; either answer is followed.
SuperDestroy == {"detached", "released"}

\* destroy(): the container group leaves the document, then super.destroy().
\* Called once: a second call finds containerGroup.parentNode null.
Destroy ==
    /\ life = "live"
    /\ life' \in SuperDestroy
    /\ emitted' = <<>>
    /\ movedTo' = Null
    /\ lastCall' = Call("destroy", NoArg)
    /\ UNCHANGED <<rect, handleXY, edgeAttrs, grabbedElem, grabbedType,
                   mouseOffset, ctm>>

Next ==
    \/ MouseDown
    \/ MouseMove
    \/ MouseUp
    \/ UpdateState
    \/ OnScaleChanged
    \/ HostZoom
    \/ Destroy

Spec == Init /\ [][Next]_vars

\* ----------------------------------------------------------------- claims

\* A step is a processed pointer-move (left button, an element grabbed) exactly
\* when movedTo' is a position; the grab state before the step tells the target.
IsBodyMove == movedTo' # Null /\ grabbedElem = RectangleElem
IsCornerMove == movedTo' # Null /\ grabbedElem # RectangleElem /\ grabbedType = CORNER
IsEdgeMove == movedTo' # Null /\ grabbedElem # RectangleElem /\ grabbedType = EDGE

\* C1: from a rectangle with w >= 1 and h >= 1, after any sequence of pointer
\* events on any grab target the rectangle has w >= 1 and h >= 1.
C1_MinimumSize == rect.w >= 1 /\ rect.h >= 1

\* A corner move that ended on the anchor's vertical: the width came out as 1.
C1_Witness ==
    /\ movedTo # Null /\ grabbedType = CORNER
    /\ movedTo.x = rect.x /\ rect.w = 1
    /\ \E i \in HandleIdxs : grabbedElem = Handles[i] /\ i \in {0, 3}

\* The handle opposite handle i: index i XOR 2.
Opposite(i) == <<2, 3, 0, 1>>[i + 1]

\* The corners of rectangle r.
Corners(r) ==
    {Pt(r.x, r.y), Pt(r.x + r.w, r.y), Pt(r.x + r.w, r.y + r.h), Pt(r.x, r.y + r.h)}

\* C2: throughout a corner drag the anchor of every move is the position the
\* opposite handle had at grab time, so no move of the drag moves that handle,
\* and that position is a corner of the rectangle after the move.
C2_AnchorFixed ==
    [][IsCornerMove =>
          LET o == Opposite(grabbedElem.n) IN
          /\ handleXY'[o] = handleXY[o]
          /\ handleXY[o] \in Corners(rect')]_vars

\* The rectangle C3 states for anchor a and pointer p.
C3_Rect(a, p) ==
    [x |-> IF p.x - a.x > 0 THEN a.x ELSE p.x,
     y |-> IF p.y - a.y > 0 THEN a.y ELSE p.y,
     w |-> IF p.x - a.x >= 1 THEN p.x - a.x
           ELSE IF a.x - p.x >= 1 THEN a.x - p.x ELSE 1,
     h |-> IF p.y - a.y >= 1 THEN p.y - a.y
           ELSE IF a.y - p.y >= 1 THEN a.y - p.y ELSE 1]

\* {10,10,50,30}: corner 2 dragged to (70,50) gives {10,10,60,40}; the top-left
\* handle dragged below and right of the anchor (60,40) puts the rectangle's
\* top-left on the anchor.
C3_Scenarios ==
    LET hs == SetSizeHandles(10, 10, 50, 30) IN
    /\ StretchCorners(2, hs[BitXor(2, 2)], Pt(70, 50)) = Rect(10, 10, 60, 40)
    /\ StretchCorners(0, hs[BitXor(0, 2)], Pt(70, 50)) = Rect(60, 40, 10, 10)

\* C3: a pointer-move of a corner drag with anchor a, the current position of
\* the opposite handle, and pointer p sets the rectangle to
\* x = (p.x - a.x > 0 ? a.x : p.x), y alike, w = max(1, |p.x - a.x|), h alike.
C3_CornerMove ==
    [][/\ IsCornerMove =>
            rect' = C3_Rect(handleXY[Opposite(grabbedElem.n)], movedTo')
       /\ C3_Scenarios]_vars

\* The top-left handle was dragged right of its anchor: the pointer is now the
\* right side of a rectangle wider than the minimum.
C3_Witness ==
    /\ movedTo # Null /\ grabbedElem = Handles[0]
    /\ movedTo.x = rect.x + rect.w /\ rect.w >= 2

\* C4: an edge drag keeps the side opposite the dragged edge where it was, the
\* minimum-size clamp included.
C4_OppositeSideFixed ==
    [][IsEdgeMove =>
          LET position == EdgePositions[grabbedElem.n] IN
          /\ position = "top" => rect'.y + rect'.h = rect.y + rect.h
          /\ position = "left" => rect'.x + rect'.w = rect.x + rect.w
          /\ position = "bottom" => rect'.y = rect.y
          /\ position = "right" => rect'.x = rect.x]_vars

\* {10,10,50,30} with the left edge dragged to x = 5 becomes {5,10,55,30}.
C5_Scenario ==
    \A py \in {0, 10, 25} :
        StretchEdge(Rect(10, 10, 50, 30), CreateEdges(10, 10, 50, 30, NoCTM)[3],
                    Pt(5, py)) = Rect(5, 10, 55, 30)

\* C5: an edge drag changes one axis only: right changes only w, bottom only h,
\* top leaves x and w, left leaves y and h.
C5_OneAxis ==
    [][/\ IsEdgeMove =>
            LET position == EdgePositions[grabbedElem.n] IN
            /\ position = "right" =>
                  rect'.x = rect.x /\ rect'.y = rect.y /\ rect'.h = rect.h
            /\ position = "bottom" =>
                  rect'.x = rect.x /\ rect'.y = rect.y /\ rect'.w = rect.w
            /\ position = "top" => rect'.x = rect.x /\ rect'.w = rect.w
            /\ position = "left" => rect'.y = rect.y /\ rect'.h = rect.h
       /\ C5_Scenario]_vars

\* A top-edge move that changed the rectangle, with the pointer off its x.
C5_Witness ==
    /\ movedTo # Null /\ grabbedElem = Edges[0]
    /\ movedTo.y = rect.y /\ movedTo.x # rect.x /\ rect.h >= 2

\* The value C6 states for a target coordinate t and the largest origin max.
C6_Clamped(t, max) == IF t < 0 THEN 0 ELSE IF t > max THEN max ELSE t

\* A target origin (-5,-5) in a 200 x 200 container with w = 50, h = 30.
C6_Scenario ==
    MoveBody(Rect(20, 20, 50, 30), Pt(30, 30), Pt(25, 25),
             [naturalWidth |-> 200, naturalHeight |-> 200]) = Rect(0, 0, 50, 30)

\* C6 as stated: after every body move, in any reachable state, w and h are
\* unchanged and the origin is pointer - offset clamped so that
\* 0 <= x <= containerWidth - w and 0 <= y <= containerHeight - h.
C6_Original ==
    [][IsBodyMove =>
          /\ rect'.w = rect.w /\ rect'.h = rect.h
          /\ rect'.x = C6_Clamped(movedTo'.x - mouseOffset.x, NaturalWidth - rect.w)
          /\ rect'.y = C6_Clamped(movedTo'.y - mouseOffset.y, NaturalHeight - rect.h)
          /\ 0 <= rect'.x /\ rect'.x <= NaturalWidth - rect'.w
          /\ 0 <= rect'.y /\ rect'.y <= NaturalHeight - rect'.h]_vars

\* C6 amended: after every body move w and h are unchanged and each origin
\* coordinate is constrain(pointer - offset, container - size); it lies in
\* 0..container - size on every axis on which the rectangle fits the container.
C6_BodyMoveClamped ==
    [][/\ IsBodyMove =>
            /\ rect'.w = rect.w /\ rect'.h = rect.h
            /\ rect'.x = C6_Clamped(movedTo'.x - mouseOffset.x, NaturalWidth - rect.w)
            /\ rect'.y = C6_Clamped(movedTo'.y - mouseOffset.y, NaturalHeight - rect.h)
            /\ rect.w <= NaturalWidth =>
                  0 <= rect'.x /\ rect'.x <= NaturalWidth - rect'.w
            /\ rect.h <= NaturalHeight =>
                  0 <= rect'.y /\ rect'.y <= NaturalHeight - rect'.h
       /\ C6_Scenario]_vars

\* A body move of a rectangle that fits, with a target left of the image.
C6_Witness ==
    /\ movedTo # Null /\ grabbedElem = RectangleElem
    /\ rect.w <= NaturalWidth /\ rect.h <= NaturalHeight
    /\ movedTo.x - mouseOffset.x < 0 /\ rect.x = 0

Contained(r) ==
    /\ r.x >= 0 /\ r.y >= 0
    /\ r.x + r.w <= NaturalWidth /\ r.y + r.h <= NaturalHeight

\* C7 as stated: the rectangle is inside the container in every reachable state.
C7_Original == Contained(rect)

\* C7 amended: containment holds after every body move of a rectangle no
\* larger than the container; corner and edge drags are not clamped to it.
C7_ContainedAfterBodyMove ==
    (/\ movedTo # Null /\ grabbedElem = RectangleElem
     /\ rect.w <= NaturalWidth /\ rect.h <= NaturalHeight)
    => Contained(rect)

\* A body move stopped at the image's right side.
C7_Witness ==
    /\ movedTo # Null /\ grabbedElem = RectangleElem
    /\ rect.w < NaturalWidth /\ rect.h <= NaturalHeight
    /\ movedTo.x - mouseOffset.x > NaturalWidth - rect.w
    /\ rect.x + rect.w = NaturalWidth

\* C8: an event of another button changes neither the grab state nor the
\* rectangle and emits nothing, whichever handler receives it.
C8_OtherButtonIgnored ==
    [][\A evt \in OtherEvents :
          (\/ OnMouseUp(evt)
           \/ OnMouseMove(evt)
           \/ \E l \in Listeners : OnGrab(l.elem, l.type, evt))
          => /\ UNCHANGED <<grabbedElem, grabbedType, mouseOffset>>
             /\ UNCHANGED <<rect, handleXY, edgeAttrs>>
             /\ emitted' = <<>>]_vars

\* C9: every pointer-move processed while dragging emits exactly one update,
\* whose payload is the rectangle the widget holds after the move; pointer-down,
\* pointer-up and a pointer-move in Idle emit none.
C9_OneUpdatePerMove ==
    IF movedTo # Null
    THEN /\ Len(emitted) = 1
         /\ Rect(emitted[1].x, emitted[1].y, emitted[1].w, emitted[1].h) = rect
    ELSE emitted = <<>>

\* An edge move that made the rectangle wider than it is high.
C9_Witness ==
    /\ movedTo # Null /\ grabbedType = EDGE
    /\ Len(emitted) = 1 /\ rect.w > rect.h

\* C10: in a body drag, a pointer-move at the position of the pointer-move just
\* before it leaves the rectangle as that one left it.
C10_BodyMoveIdempotent ==
    [][(/\ movedTo # Null /\ movedTo' = movedTo
        /\ grabbedElem = RectangleElem)
       => rect' = rect]_vars

\* A body move that took the rectangle off the origin its grab recorded.
C10_Witness ==
    /\ movedTo # Null /\ grabbedElem = RectangleElem
    /\ movedTo.x - mouseOffset.x = rect.x /\ rect.x > 0
    /\ rect.w <= NaturalWidth

\* A step in which the method or listener named op ran (a zoom of the host
\* runs none and leaves lastCall as it was).
Ran(op) == lastCall'.op = op /\ ctm' = ctm

\* C11: a pointer-up, whatever is grabbed, leaves nothing grabbed, no grab type
\* and no pointer offset, and leaves the rectangle, the handles and the edges
\* as they were; with nothing grabbed a pointer-move changes nothing, and only
\* a pointer-down ends that.
C11_PointerUpClears ==
    [][/\ Ran("onMouseUp") =>
            /\ grabbedElem' = NullElem
            /\ grabbedType' = NullType
            /\ mouseOffset' = Null
            /\ UNCHANGED <<rect, handleXY, edgeAttrs>>
            /\ emitted' = <<>>
       /\ (grabbedElem = NullElem /\ Ran("onMouseMove")) =>
            /\ UNCHANGED <<rect, handleXY, edgeAttrs>>
            /\ UNCHANGED <<grabbedElem, grabbedType, mouseOffset>>
            /\ emitted' = <<>>
       /\ (grabbedElem = NullElem /\ grabbedElem' # NullElem) =>
            Ran("onGrab")]_vars

\* A pointer-up that ended a drag: nothing is grabbed and the rectangle is one
\* no annotation gave, reaching past the image's right side.
C11_Witness ==
    /\ lastCall.op = "onMouseUp"
    /\ grabbedElem = NullElem /\ mouseOffset = Null
    /\ rect.x + rect.w > NaturalWidth

\* C12: once destroy() was called nothing is grabbed, and from then on no
\* pointer-move and no pointer-up changes the rectangle or emits an update.
C12_DestroyEndsDrag ==
    [][/\ life' # "live" => grabbedElem' = NullElem /\ mouseOffset' = Null
       /\ life # "live" => rect' = rect /\ emitted' = <<>>]_vars

\* The handles and the edge strips setSize and updateEdgePositions place for
\* rectangle r and padding p.
C13_Handles(r) ==
    <<Pt(r.x, r.y), Pt(r.x + r.w, r.y), Pt(r.x + r.w, r.y + r.h),
      Pt(r.x, r.y + r.h)>>
C13_Strips(r, p) ==
    <<Rect(r.x, r.y - p, r.w, 2 * p), Rect(r.x + r.w - p, r.y, 2 * p, r.h),
      Rect(r.x, r.y + r.h - p, r.w, 2 * p), Rect(r.x - p, r.y, 2 * p, r.h)>>
C13_Padding(t) == IF t.null THEN 5 ELSE 5 \div t.a

\* C13: after updateState, a pointer-move of a drag and onScaleChanged, the
\* handles 0..3 are at the rectangle's corners clockwise from (x, y) and the
\* edge strips top, right, bottom, left are placed around it with padding
\* 5 / zoom of the zoom in force.
C13_NoDrift ==
    [][(Ran("updateState") \/ Ran("onScaleChanged") \/ movedTo' # Null) =>
          /\ \A i \in HandleIdxs : handleXY'[i] = C13_Handles(rect')[i + 1]
          /\ \A i \in EdgeIdxs :
                /\ Rect(edgeAttrs'[i].x, edgeAttrs'[i].y, edgeAttrs'[i].width,
                        edgeAttrs'[i].height)
                   = C13_Strips(rect', C13_Padding(ctm'))[i + 1]
                /\ edgeAttrs'[i].class[2] = EdgePositions[i]]_vars

\* An edge move under zoom 5 that widened the rectangle past the image: the
\* strips are 2 thick.
C13_Witness ==
    /\ movedTo # Null /\ grabbedType = EDGE
    /\ ~ctm.null /\ ctm.a = 5
    /\ edgeAttrs[0].height = 2 /\ edgeAttrs[1].width = 2
    /\ rect.w > NaturalWidth

\* C14: onScaleChanged, in any state and under any zoom, leaves the rectangle,
\* the four handle positions and the grab state as they were and emits
\* nothing; of the edge strips only the padding-dependent geometry changes
\* (y and height of top and bottom, x and width of right and left).
C14_ScaleChangeFrame ==
    [][Ran("onScaleChanged") =>
          /\ UNCHANGED <<rect, handleXY>>
          /\ UNCHANGED <<grabbedElem, grabbedType, mouseOffset>>
          /\ emitted' = <<>>
          /\ \A i \in EdgeIdxs :
                /\ edgeAttrs'[i].class = edgeAttrs[i].class
                /\ IF i \in {0, 2}
                   THEN /\ edgeAttrs'[i].x = edgeAttrs[i].x
                        /\ edgeAttrs'[i].width = edgeAttrs[i].width
                   ELSE /\ edgeAttrs'[i].y = edgeAttrs[i].y
                        /\ edgeAttrs'[i].height = edgeAttrs[i].height]_vars

\* onScaleChanged ran during a corner drag, under zoom 5.
C14_Witness ==
    /\ lastCall.op = "onScaleChanged"
    /\ grabbedType = CORNER /\ mouseOffset # Null
    /\ ~ctm.null /\ ctm.a = 5 /\ edgeAttrs[3].width = 2

\* The rectangle annotation a encodes.
C15_Encoded(a) == Rect(a.x, a.y, a.w, a.h)

C16_UpdateStateKeepsGrab ==
    [][Ran("updateState") =>
          /\ UNCHANGED <<grabbedElem, grabbedType, mouseOffset>>
          /\ emitted' = <<>>]_vars

\* updateState ran with the body grabbed and moved the rectangle away from
\* the origin the pointer offset was taken from.
C16_Witness ==
    /\ lastCall.op = "updateState"
    /\ grabbedElem = RectangleElem /\ mouseOffset = Pt(0, 0)
    /\ rect.x > 0 /\ emitted = <<>>

\* C17: the edge padding times the zoom factor is the base padding 5 for every
\* transform the surface can answer with, the one in force included; without a
\* transform the zoom factor is 1 and the padding 5.
C17_ZoomInvariance ==
    /\ \A t \in CTMs \cup {ctm} :
          /\ CalculateEdgePadding(t) * GetZoomFactor(t) = 5
          /\ t.null => GetZoomFactor(t) = 1 /\ CalculateEdgePadding(t) = 5
    /\ CalculateEdgePadding(NoCTM) = 5

\* onScaleChanged ran under zoom 5 with nothing grabbed: padding 1 is in the
\* strips.
C17_Witness ==
    /\ lastCall.op = "onScaleChanged" /\ grabbedElem = NullElem
    /\ ~ctm.null /\ ctm.a = 5 /\ CalculateEdgePadding(ctm) = 1
    /\ edgeAttrs[0].height = 2 /\ edgeAttrs[0].y = rect.y - 1

\* C18: a pointer-move with nothing grabbed, at any pointer position, leaves
\* the rectangle, the handles, the edge strips and the grab state as they were
\* and nothing grabbed.
C18_IdleMoveNoOp ==
    [][(grabbedElem = NullElem /\ Ran("onMouseMove")) =>
          /\ UNCHANGED <<rect, handleXY, edgeAttrs>>
          /\ UNCHANGED <<grabbedElem, grabbedType, mouseOffset>>
          /\ grabbedElem' = NullElem
          /\ emitted' = <<>>]_vars

\* A pointer-move ran with nothing grabbed, after a drag had taken the
\* rectangle's top above the image.
C18_Witness ==
    /\ lastCall.op = "onMouseMove"
    /\ grabbedElem = NullElem /\ grabbedType = NullType /\ mouseOffset = Null
    /\ movedTo = Null /\ emitted = <<>>
    /\ rect.y < 0

\* C19: a left pointer-down on target T at pointer q, whatever was grabbed
\* before, leaves T grabbed with its type, the offset q - (x, y) of the current
\* rectangle, the geometry as it was and no update; a pointer-move keeps the
\* grabbed target, and only a pointer-down or a pointer-up changes it.
C19_GrabRecordsOffset ==
    [][/\ (Ran("onGrab") /\ lastCall'.arg # NoArg) =>
            LET l == lastCall'.arg
                q == lastCall'.arg.evt.pos
            IN /\ grabbedElem' = l.elem
               /\ grabbedType' = l.type
               /\ mouseOffset' = Pt(q.x - rect.x, q.y - rect.y)
               /\ UNCHANGED <<rect, handleXY, edgeAttrs>>
               /\ emitted' = <<>>
       /\ Ran("onMouseMove") =>
            grabbedElem' = grabbedElem /\ grabbedType' = grabbedType
       /\ (grabbedElem # NullElem /\ grabbedElem' # grabbedElem) =>
            Ran("onGrab") \/ Ran("onMouseUp")]_vars

\* The body was grabbed one unit right of the origin of a rectangle that an
\* earlier drag had made wider than the image.
C19_Witness ==
    /\ lastCall.op = "onGrab"
    /\ grabbedElem = RectangleElem /\ grabbedType = Undefined
    /\ mouseOffset = Pt(1, 0)
    /\ rect.w > NaturalWidth

\* C20: nothing is grabbed exactly when there is no pointer offset; a grabbed
\* element has type 'corner' exactly when it is one of the four handles, 'edge'
\* exactly when it is one of the four edge strips and neither when it is the
\* rectangle body, and a grabbed corner has a handle index in 0..3.
C20_GrabCoherent ==
    /\ (grabbedElem = NullElem) <=> (mouseOffset = Null)
    /\ grabbedElem = NullElem => grabbedType = NullType
    /\ grabbedElem # NullElem =>
        /\ (grabbedType = CORNER) <=> (\E i \in HandleIdxs : grabbedElem = Handles[i])
        /\ (grabbedType = EDGE) <=> (\E i \in EdgeIdxs : grabbedElem = Edges[i])
        /\ grabbedElem = RectangleElem => grabbedType \notin {CORNER, EDGE}
    /\ grabbedType = CORNER => IndexOfHandle(grabbedElem) \in 0..3

\* The left edge strip is grabbed and a move of it was processed.
C20_Witness ==
    /\ grabbedElem = Edges[3] /\ grabbedType = EDGE
    /\ mouseOffset # Null /\ movedTo # Null
    /\ IndexOfHandle(grabbedElem) = -1

====
